---- MODULE Spec2Model ----
(***************************************************************************)
(* youtube-shorts-maker: the POST /run handler (app.py), the transform     *)
(* stages it calls (utils.py) and the resumable upload loop                *)
(* (youtube_uploader.py), as a state machine over the six fixed /tmp paths.*)
(*                                                                         *)
(* Every variable is a function over worker threads: the handler's locals  *)
(* live in one request's frame, the files are shared.  Spec runs Jobs one  *)
(* after another on one worker.                                            *)
(***************************************************************************)
EXTENDS Integers, Sequences, FiniteSets, TLC

VARIABLES
    fs,          \* the shared /tmp files: path -> content
    pc,          \* per worker: position in process_youtube_short
    req,         \* per worker: the request being handled
    video_path,  \* per worker: local video_path of process_youtube_short
    audio_path,  \* per worker: local audio_path
    calls,       \* per worker: the calls made so far for this Job (history)
    resp,        \* per worker: the HTTP response of this Job
    response,    \* per worker: local response of upload_video_to_youtube
    retry,       \* per worker: local retry of upload_video_to_youtube
    error,       \* per worker: local error of upload_video_to_youtube
    raised,      \* per worker: messages next_chunk raised so far (history)
    video_id,    \* per worker: local video_id of process_youtube_short
    media,       \* per worker: what the MediaFileUpload of this session opened
    authCalls,   \* per worker: get_youtube_service calls of this Job (history)
    chunkCalls   \* per worker: next_chunk calls of this Job (history, saturating)

vars == <<fs, pc, req, video_path, audio_path, calls, resp,
          response, retry, error, raised, video_id, media, authCalls,
          chunkCalls>>

hvars == <<req, video_path, audio_path, video_id>>
uvars == <<response, retry, error, raised, media, authCalls, chunkCalls>>

----------------------------------------------------------------------------
(* Bounds                                                                  *)

\* next_chunk calls counted exactly up to this many; the counter saturates.
MaxCalls == 6

----------------------------------------------------------------------------
(* Program constants                                                       *)

MaxRetries == 3

INPUT_VIDEO   == "/tmp/input_video.mp4"
INPUT_AUDIO   == "/tmp/input_audio.mp3"
DUCKED_VIDEO  == "/tmp/ducked_video.mp4"
WATERMARK_VIDEO == "/tmp/watermark_video.mp4"
SUBTITLE_VIDEO == "/tmp/subtitle_video.mp4"
FINAL_OUTPUT  == "/tmp/final_output.mp4"

\* (mutant: the audio input is left out of the list)
cleanup_filesNoAudio == <<INPUT_VIDEO, DUCKED_VIDEO, WATERMARK_VIDEO,
                          SUBTITLE_VIDEO, FINAL_OUTPUT>>

cleanup_files == <<INPUT_VIDEO, INPUT_AUDIO, DUCKED_VIDEO, WATERMARK_VIDEO,
                   SUBTITLE_VIDEO, FINAL_OUTPUT>>

Paths == {INPUT_VIDEO, INPUT_AUDIO, DUCKED_VIDEO, WATERMARK_VIDEO,
          SUBTITLE_VIDEO, FINAL_OUTPUT}

ALLOWED_VIDEO_EXTENSIONS == {"mp4", "avi", "mov", "mkv"}
ALLOWED_AUDIO_EXTENSIONS == {"mp3", "wav", "aac", "m4a"}

None == "None"

Workers == {"w1", "w2"}

Old == "old"
NoAudio == "none"

----------------------------------------------------------------------------
(* Files.  A content records whose video it derives from (src: the worker  *)
(* whose current Job wrote it, Old for a file left by an earlier Job),     *)
(* whose overlay audio was mixed in (aud), the stages applied, and         *)
(* whether the writer finished (ok) or raised half-way.                    *)

NoFile == [exists |-> FALSE, src |-> Old, aud |-> NoAudio, stages |-> <<>>, ok |-> TRUE]

Media(p) == [exists |-> TRUE, src |-> p, aud |-> NoAudio, stages |-> <<>>, ok |-> TRUE]

Partial(p) == [exists |-> TRUE, src |-> p, aud |-> NoAudio, stages |-> <<>>, ok |-> FALSE]

Stale == [exists |-> TRUE, src |-> Old, aud |-> NoAudio, stages |-> <<>>, ok |-> TRUE]

exists(path) == fs[path].exists

\* What a new Job of worker p finds of its own earlier Jobs: the same files,
\* now foreign to it.
Aged(p) == [x \in Paths |-> IF fs[x].exists /\ (fs[x].src = p \/ fs[x].aud = p)
                              THEN Stale ELSE fs[x]]

----------------------------------------------------------------------------
(* Requests.  A file name is its '.'-separated parts; NoField is an absent *)
(* multipart field.                                                        *)

NoField == <<>>

lower(s) == CASE s = "MP4" -> "mp4"
              [] s = "MP3" -> "mp3"
              [] OTHER -> s

allowed_file(filename, allowed_extensions) ==
    /\ Len(filename) > 1
    /\ lower(filename[Len(filename)]) \in allowed_extensions

VideoFileNames == {NoField, <<"clip", "MP4">>, <<"clip", "txt">>}
AudioFileNames == {NoField, <<"voice", "mp3">>, <<"voice">>}

\* A raw body (content type video/ or audio/) carries no form fields and no
\* files; a JSON body carries no files.
Requests ==
    { r \in [content_type : {"video/", "audio/", "json", "form"},
             video_url : BOOLEAN, audio_url : BOOLEAN,
             video_file : VideoFileNames, audio_file : AudioFileNames,
             username : {"", "alice"}, subtitle_text : {"", "Hello"}] :
        /\ r.content_type \in {"video/", "audio/"} =>
              /\ ~r.video_url /\ ~r.audio_url
              /\ r.username = "" /\ r.subtitle_text = ""
        /\ r.content_type # "form" =>
              /\ r.video_file = NoField /\ r.audio_file = NoField }

NoRequest == [content_type |-> "", video_url |-> FALSE, audio_url |-> FALSE,
              video_file |-> NoField, audio_file |-> NoField,
              username |-> "", subtitle_text |-> ""]

----------------------------------------------------------------------------
(* Messages are the pieces of an f-string, outermost prefix first.         *)

Wrap(prefix, msg) == <<prefix>> \o msg

ChunkErrors == {"timeout", "reset"}
VideoIds == {"vidA", "vidB"}

NoResponse == [isNone |-> TRUE, keys |-> {}, id |-> ""]
Terminal(v) == [isNone |-> FALSE, keys |-> {"kind", "id"}, id |-> v]
TerminalNoId == [isNone |-> FALSE, keys |-> {"kind"}, id |-> ""]

NoResp == [status |-> 0, keys |-> {}, success |-> FALSE, error |-> <<>>,
           video_id |-> ""]

ClientError(msg) == [status |-> 400, keys |-> {"error"}, success |-> FALSE,
                     error |-> msg, video_id |-> ""]

ServerError(msg) == [status |-> 500, keys |-> {"success", "error"},
                     success |-> FALSE, error |-> msg, video_id |-> ""]

Success(v) == [status |-> 200,
               keys |-> {"success", "message", "video_id", "video_url"},
               success |-> TRUE, error |-> <<>>, video_id |-> v]

----------------------------------------------------------------------------
(* History of the calls a Job makes, in order.                             *)

Call(op, src, dst) == [op |-> op, src |-> src, dst |-> dst]

Log(p, c) == [calls EXCEPT ![p] = Append(@, c)]

\* The handler's except clause (app.py 170-175), and its ValueError clause
\* (app.py 105-106): the response ends the Job.
Respond(p, r) ==
    /\ resp' = [resp EXCEPT ![p] = r]
    /\ pc' = [pc EXCEPT ![p] = "done"]

\* What an interrupted writer leaves at its output path: nothing new, or a
\* truncated file.
Interrupted(p, path) ==
    \/ fs' = fs
    \/ fs' = [fs EXCEPT ![path] = Partial(p)]

----------------------------------------------------------------------------
(* Init: no request yet, no files.                                         *)

Init ==
    /\ fs = [x \in Paths |-> NoFile]
    /\ pc = [p \in Workers |-> "idle"]
    /\ req = [p \in Workers |-> NoRequest]
    /\ video_path = [p \in Workers |-> None]
    /\ audio_path = [p \in Workers |-> None]
    /\ calls = [p \in Workers |-> <<>>]
    /\ resp = [p \in Workers |-> NoResp]
    /\ response = [p \in Workers |-> NoResponse]
    /\ retry = [p \in Workers |-> 0]
    /\ error = [p \in Workers |-> None]
    /\ raised = [p \in Workers |-> <<>>]
    /\ video_id = [p \in Workers |-> None]
    /\ media = [p \in Workers |-> NoFile]
    /\ authCalls = [p \in Workers |-> 0]
    /\ chunkCalls = [p \in Workers |-> 0]

----------------------------------------------------------------------------
(* process_youtube_short, app.py 82-175                                    *)

\* A request arrives at a worker that is not handling one (app.py 82-99).
StartJob(p) ==
    /\ pc[p] = "idle"
    /\ \E r \in Requests : req' = [req EXCEPT ![p] = r]
    /\ pc' = [pc EXCEPT ![p] = "save_video"]
    /\ UNCHANGED <<fs, video_path, audio_path, video_id, calls, resp>>
    /\ UNCHANGED uvars

\* The handler returns its response (app.py 106, 163, 172): the frame and its
\* locals are gone, the files stay.
Return(p) ==
    /\ pc[p] = "done"
    /\ pc' = [pc EXCEPT ![p] = "idle"]
    /\ fs' = Aged(p)
    /\ req' = [req EXCEPT ![p] = NoRequest]
    /\ video_path' = [video_path EXCEPT ![p] = None]
    /\ audio_path' = [audio_path EXCEPT ![p] = None]
    /\ calls' = [calls EXCEPT ![p] = <<>>]
    /\ resp' = [resp EXCEPT ![p] = NoResp]
    /\ response' = [response EXCEPT ![p] = NoResponse]
    /\ retry' = [retry EXCEPT ![p] = 0]
    /\ error' = [error EXCEPT ![p] = None]
    /\ raised' = [raised EXCEPT ![p] = <<>>]
    /\ video_id' = [video_id EXCEPT ![p] = None]
    /\ media' = [media EXCEPT ![p] = NoFile]
    /\ authCalls' = [authCalls EXCEPT ![p] = 0]
    /\ chunkCalls' = [chunkCalls EXCEPT ![p] = 0]

\* (mutant: any uploaded video_file is taken, whatever its extension)
VideoFormAnyFile(r) ==
    IF r.content_type = "video/" THEN "raw"
    ELSE IF r.video_url THEN "url"
    ELSE IF r.video_file # NoField THEN "file"
    ELSE "none"

\* save_video_from_request, app.py 23-50: which form of video the request has.
VideoForm(r) ==
    IF r.content_type = "video/" THEN "raw"
    ELSE IF r.video_url THEN "url"
    ELSE IF r.video_file # NoField
            /\ allowed_file(r.video_file, ALLOWED_VIDEO_EXTENSIONS) THEN "file"
    ELSE "none"

\* save_audio_from_request, app.py 52-79
AudioForm(r) ==
    IF r.content_type = "audio/" THEN "raw"
    ELSE IF r.audio_url THEN "url"
    ELSE IF r.audio_file # NoField
            /\ allowed_file(r.audio_file, ALLOWED_AUDIO_EXTENSIONS) THEN "file"
    ELSE "none"

\* (mutant: a file already at the fixed path is kept instead of overwritten)
SaveVideoKeepsExisting(p) ==
    /\ pc[p] = "save_video"
    /\ VideoForm(req[p]) # "none"
    /\ fs' = IF exists(INPUT_VIDEO) THEN fs
             ELSE [fs EXCEPT ![INPUT_VIDEO] = Media(p)]
    /\ video_path' = [video_path EXCEPT ![p] = INPUT_VIDEO]
    /\ calls' = Log(p, Call("save_video", VideoForm(req[p]), INPUT_VIDEO))
    /\ pc' = [pc EXCEPT ![p] = "save_audio"]
    /\ UNCHANGED <<req, audio_path, video_id, resp>>
    /\ UNCHANGED uvars

\* Step 1, a video form is present and is written to the fixed path.
SaveVideo(p) ==
    /\ pc[p] = "save_video"
    /\ VideoForm(req[p]) # "none"
    /\ fs' = [fs EXCEPT ![INPUT_VIDEO] = Media(p)]
    /\ video_path' = [video_path EXCEPT ![p] = INPUT_VIDEO]
    /\ calls' = Log(p, Call("save_video", VideoForm(req[p]), INPUT_VIDEO))
    /\ pc' = [pc EXCEPT ![p] = "save_audio"]
    /\ UNCHANGED <<req, audio_path, video_id, resp>>
    /\ UNCHANGED uvars

\* Step 1, download_file raises (utils.py 32-34): not a ValueError, so the
\* outer except answers 500.
SaveVideoDownloadFails(p) ==
    /\ pc[p] = "save_video"
    /\ VideoForm(req[p]) = "url"
    /\ Interrupted(p, INPUT_VIDEO)
    /\ calls' = Log(p, Call("save_video", "url", INPUT_VIDEO))
    /\ Respond(p, ServerError(Wrap("Failed to download file from video_url: ",
                                 <<"RequestException">>)))
    /\ UNCHANGED hvars
    /\ UNCHANGED uvars

\* Step 1, no form is present: ValueError, answered 400 (app.py 50, 105-106).
SaveVideoMissing(p) ==
    /\ pc[p] = "save_video"
    /\ VideoForm(req[p]) = "none"
    /\ Respond(p, ClientError(<<"No valid video input provided">>))
    /\ UNCHANGED <<fs, calls>>
    /\ UNCHANGED hvars
    /\ UNCHANGED uvars

\* Step 2, an audio form is present (app.py 109-111).
SaveAudio(p) ==
    /\ pc[p] = "save_audio"
    /\ AudioForm(req[p]) # "none"
    /\ fs' = [fs EXCEPT ![INPUT_AUDIO] = Media(p)]
    /\ audio_path' = [audio_path EXCEPT ![p] = INPUT_AUDIO]
    /\ calls' = Log(p, Call("save_audio", AudioForm(req[p]), INPUT_AUDIO))
    /\ pc' = [pc EXCEPT ![p] = "ducking"]
    /\ UNCHANGED <<req, video_path, video_id, resp>>
    /\ UNCHANGED uvars

\* Step 2, download_file raises.
SaveAudioDownloadFails(p) ==
    /\ pc[p] = "save_audio"
    /\ AudioForm(req[p]) = "url"
    /\ Interrupted(p, INPUT_AUDIO)
    /\ calls' = Log(p, Call("save_audio", "url", INPUT_AUDIO))
    /\ Respond(p, ServerError(Wrap("Failed to download file from audio_url: ",
                                 <<"RequestException">>)))
    /\ UNCHANGED hvars
    /\ UNCHANGED uvars

\* Step 2, no audio: save_audio_from_request returns None (app.py 79).
SaveAudioNone(p) ==
    /\ pc[p] = "save_audio"
    /\ AudioForm(req[p]) = "none"
    /\ pc' = [pc EXCEPT ![p] = "ducking"]
    /\ UNCHANGED <<fs, calls, resp>>
    /\ UNCHANGED hvars
    /\ UNCHANGED uvars

----------------------------------------------------------------------------
(* The transform stages, utils.py 60-162: what ffmpeg writes at the output *)
(* path when it exits 0.                                                   *)

ducked(v, a) == [exists |-> TRUE, src |-> v.src, aud |-> a.src,
                 stages |-> Append(v.stages, "ducking"), ok |-> v.ok /\ a.ok]

watermarked(v) == [v EXCEPT !.stages = Append(@, "watermark")]

subtitled(v) == [v EXCEPT !.stages = Append(@, "subtitle")]

\* (mutant: the stage's output is written but video_path is not advanced)
StageDoneKeepsInput(p, op, out, content, next) ==
    /\ fs' = [fs EXCEPT ![out] = content]
    /\ calls' = Log(p, Call(op, video_path[p], out))
    /\ pc' = [pc EXCEPT ![p] = next]
    /\ UNCHANGED <<req, video_path, audio_path, video_id, resp>>
    /\ UNCHANGED uvars

\* A stage returned: its output is written and becomes the current artifact.
StageDone(p, op, out, content, next) ==
    /\ fs' = [fs EXCEPT ![out] = content]
    /\ calls' = Log(p, Call(op, video_path[p], out))
    /\ video_path' = [video_path EXCEPT ![p] = out]
    /\ pc' = [pc EXCEPT ![p] = next]
    /\ UNCHANGED <<req, audio_path, video_id, resp>>
    /\ UNCHANGED uvars

\* (mutant: the stage's error is logged and the Job goes on to the rename)
StageRaisedContinues(p, op, out, prefix, inner) ==
    /\ Interrupted(p, out)
    /\ calls' = Log(p, Call(op, video_path[p], out))
    /\ pc' = [pc EXCEPT ![p] = "rename"]
    /\ UNCHANGED resp
    /\ UNCHANGED hvars
    /\ UNCHANGED uvars

\* A stage raised (ffmpeg exit code not 0, or the probe of the duration
\* failed): the handler's except clause answers 500.
StageRaised(p, op, out, prefix, inner) ==
    /\ Interrupted(p, out)
    /\ calls' = Log(p, Call(op, video_path[p], out))
    /\ Respond(p, ServerError(Wrap(prefix, Wrap(inner, <<"stderr">>))))
    /\ UNCHANGED hvars
    /\ UNCHANGED uvars

\* A stage's condition is false: nothing is called.
StageSkipped(p, next) ==
    /\ pc' = [pc EXCEPT ![p] = next]
    /\ UNCHANGED <<fs, calls, resp>>
    /\ UNCHANGED hvars
    /\ UNCHANGED uvars

\* (mutant: ducking runs whenever a file is at the audio path)
ApplyDuckingIfFileExists(p) ==
    /\ pc[p] = "ducking"
    /\ exists(video_path[p]) /\ exists(INPUT_AUDIO)
    /\ StageDone(p, "apply_ducking", DUCKED_VIDEO,
                 ducked(fs[video_path[p]], fs[INPUT_AUDIO]), "watermark")

\* Step 3, app.py 114-118
ApplyDucking(p) ==
    /\ pc[p] = "ducking"
    /\ audio_path[p] # None
    /\ exists(video_path[p]) /\ exists(audio_path[p])
    /\ StageDone(p, "apply_ducking", DUCKED_VIDEO,
                 ducked(fs[video_path[p]], fs[audio_path[p]]), "watermark")

ApplyDuckingFails(p) ==
    /\ pc[p] = "ducking"
    /\ audio_path[p] # None
    /\ StageRaised(p, "apply_ducking", DUCKED_VIDEO,
                   "Failed to apply audio ducking: ", "Audio ducking failed: ")

SkipDucking(p) ==
    /\ pc[p] = "ducking"
    /\ audio_path[p] = None
    /\ StageSkipped(p, "watermark")

\* Step 4, app.py 121-125
AddWatermark(p) ==
    /\ pc[p] = "watermark"
    /\ req[p].username # ""
    /\ exists(video_path[p])
    /\ StageDone(p, "add_watermark", WATERMARK_VIDEO,
                 watermarked(fs[video_path[p]]), "subtitle")

AddWatermarkFails(p) ==
    /\ pc[p] = "watermark"
    /\ req[p].username # ""
    /\ StageRaised(p, "add_watermark", WATERMARK_VIDEO,
                   "Failed to add watermark: ", "Watermark addition failed: ")

SkipWatermark(p) ==
    /\ pc[p] = "watermark"
    /\ req[p].username = ""
    /\ StageSkipped(p, "subtitle")

\* Step 5, app.py 128-132
AddSubtitle(p) ==
    /\ pc[p] = "subtitle"
    /\ req[p].subtitle_text # ""
    /\ exists(video_path[p])
    /\ StageDone(p, "add_subtitle", SUBTITLE_VIDEO,
                 subtitled(fs[video_path[p]]), "rename")

AddSubtitleFails(p) ==
    /\ pc[p] = "subtitle"
    /\ req[p].subtitle_text # ""
    /\ StageRaised(p, "add_subtitle", SUBTITLE_VIDEO,
                   "Failed to add subtitle: ", "Subtitle addition failed: ")

SkipSubtitle(p) ==
    /\ pc[p] = "subtitle"
    /\ req[p].subtitle_text = ""
    /\ StageSkipped(p, "rename")

\* Step 6, app.py 135-137: os.rename moves the current artifact over the
\* final path.
Rename(p) ==
    /\ pc[p] = "rename"
    /\ exists(video_path[p])
    /\ fs' = [fs EXCEPT ![video_path[p]] = NoFile,
                        ![FINAL_OUTPUT] = fs[video_path[p]]]
    /\ calls' = Log(p, Call("rename", video_path[p], FINAL_OUTPUT))
    /\ pc' = [pc EXCEPT ![p] = "upload"]
    /\ UNCHANGED <<resp>>
    /\ UNCHANGED hvars
    /\ UNCHANGED uvars

\* (mutant: a failing Job removes the temporary files before it answers)
RenameFailsAndCleans(p) ==
    /\ pc[p] = "rename"
    /\ calls' = Log(p, Call("rename", video_path[p], FINAL_OUTPUT))
    /\ Respond(p, ServerError(<<"OSError">>))
    /\ fs' = [x \in Paths |-> NoFile]
    /\ UNCHANGED hvars
    /\ UNCHANGED uvars

\* os.rename raises OSError: the source is gone, or the system refuses.
RenameFails(p) ==
    /\ pc[p] = "rename"
    /\ calls' = Log(p, Call("rename", video_path[p], FINAL_OUTPUT))
    /\ Respond(p, ServerError(<<"OSError">>))
    /\ UNCHANGED fs
    /\ UNCHANGED hvars
    /\ UNCHANGED uvars

\* app.py 148-168: every path of cleanup_files that exists is removed, and
\* the success response is sent.
Cleanup(p) ==
    /\ pc[p] = "cleanup"
    /\ fs' = [x \in Paths |-> IF \E i \in 1..Len(cleanup_files) : cleanup_files[i] = x
                              THEN NoFile ELSE fs[x]]
    /\ Respond(p, Success(video_id[p]))
    /\ UNCHANGED calls
    /\ UNCHANGED hvars
    /\ UNCHANGED uvars

----------------------------------------------------------------------------
(* upload_video_to_youtube, youtube_uploader.py 51-120.  Whatever it       *)
(* raises is wrapped at 118-120 and answered 500 by the handler.           *)

\* (mutant: the handler calls the upload again when it raised)
UploadRaisesAndRetries(p, msg) ==
    /\ pc' = [pc EXCEPT ![p] = "upload"]
    /\ UNCHANGED resp

UploadRaises(p, msg) ==
    Respond(p, ServerError(Wrap("Failed to upload video to YouTube: ", msg)))

\* (mutant: the call goes on to authenticate without looking for the file)
UploadStartUnchecked(p) ==
    /\ pc[p] = "upload"
    /\ calls' = Log(p, Call("upload", FINAL_OUTPUT, ""))
    /\ pc' = [pc EXCEPT ![p] = "auth"]
    /\ UNCHANGED <<fs, resp>>
    /\ UNCHANGED hvars
    /\ UNCHANGED uvars

\* app.py 141 and youtube_uploader.py 53-57: the call, and the check that the
\* file is there.
UploadStart(p) ==
    /\ pc[p] = "upload"
    /\ calls' = Log(p, Call("upload", FINAL_OUTPUT, ""))
    /\ IF exists(FINAL_OUTPUT)
       THEN /\ pc' = [pc EXCEPT ![p] = "auth"]
            /\ UNCHANGED resp
       ELSE UploadRaises(p, <<"Video file not found: ", FINAL_OUTPUT>>)
    /\ UNCHANGED fs
    /\ UNCHANGED hvars
    /\ UNCHANGED uvars

\* youtube_uploader.py 60-96: get_youtube_service returns, MediaFileUpload
\* opens the file, the request is built, the loop's locals are set.
GetService(p) ==
    /\ pc[p] = "auth"
    /\ exists(FINAL_OUTPUT)
    /\ media' = [media EXCEPT ![p] = fs[FINAL_OUTPUT]]
    /\ authCalls' = [authCalls EXCEPT ![p] = @ + 1]
    /\ response' = [response EXCEPT ![p] = NoResponse]
    /\ error' = [error EXCEPT ![p] = None]
    /\ retry' = [retry EXCEPT ![p] = 0]
    /\ pc' = [pc EXCEPT ![p] = "while"]
    /\ UNCHANGED <<fs, calls, resp, raised, chunkCalls>>
    /\ UNCHANGED hvars

\* youtube_uploader.py 47-49: get_youtube_service raises.
GetServiceFails(p) ==
    /\ pc[p] = "auth"
    /\ authCalls' = [authCalls EXCEPT ![p] = @ + 1]
    /\ UploadRaises(p, Wrap("Failed to authenticate with YouTube API: ",
                            <<"RefreshError">>))
    /\ UNCHANGED <<fs, calls, response, error, retry, raised, media, chunkCalls>>
    /\ UNCHANGED hvars

\* youtube_uploader.py 98: while response is None
WhileResponseIsNone(p) ==
    /\ pc[p] = "while"
    /\ pc' = [pc EXCEPT ![p] = IF response[p].isNone THEN "next_chunk" ELSE "result"]
    /\ UNCHANGED <<fs, calls, resp>>
    /\ UNCHANGED hvars
    /\ UNCHANGED uvars

Counted(n) == IF n < MaxCalls THEN n + 1 ELSE n

\* (mutant: a chunk that went through gives the next chunk its retries back)
NextChunkProgressResets(p) ==
    /\ pc[p] = "next_chunk"
    /\ chunkCalls' = [chunkCalls EXCEPT ![p] = Counted(@)]
    /\ response' = [response EXCEPT ![p] = NoResponse]
    /\ retry' = [retry EXCEPT ![p] = 0]
    /\ pc' = [pc EXCEPT ![p] = "while"]
    /\ UNCHANGED <<fs, calls, resp, error, raised, media, authCalls>>
    /\ UNCHANGED hvars

\* youtube_uploader.py 100-102: next_chunk returns a status and no response.
NextChunkProgress(p) ==
    /\ pc[p] = "next_chunk"
    /\ chunkCalls' = [chunkCalls EXCEPT ![p] = Counted(@)]
    /\ response' = [response EXCEPT ![p] = NoResponse]
    /\ pc' = [pc EXCEPT ![p] = "while"]
    /\ UNCHANGED <<fs, calls, resp, retry, error, raised, media, authCalls>>
    /\ UNCHANGED hvars

\* youtube_uploader.py 100: next_chunk returns the terminal response.
NextChunkTerminal(p) ==
    /\ pc[p] = "next_chunk"
    /\ chunkCalls' = [chunkCalls EXCEPT ![p] = Counted(@)]
    /\ \E r \in {Terminal(v) : v \in VideoIds} \cup {TerminalNoId} :
          response' = [response EXCEPT ![p] = r]
    /\ pc' = [pc EXCEPT ![p] = "while"]
    /\ UNCHANGED <<fs, calls, resp, retry, error, raised, media, authCalls>>
    /\ UNCHANGED hvars

\* (mutant: the ceiling tested with >= instead of >)
RetriesExhaustedOffByOne(n) == n >= MaxRetries

\* youtube_uploader.py 106: the retry ceiling
RetriesExhausted(n) == n > MaxRetries

\* (mutant: the counter is not incremented, so the ceiling is never met)
NextChunkRaisesUncounted(p) ==
    /\ pc[p] = "next_chunk"
    /\ chunkCalls' = [chunkCalls EXCEPT ![p] = Counted(@)]
    /\ \E e \in ChunkErrors : error' = [error EXCEPT ![p] = e]
    /\ pc' = [pc EXCEPT ![p] = "while"]
    /\ UNCHANGED <<fs, calls, resp, response, retry, raised, media, authCalls>>
    /\ UNCHANGED hvars

\* youtube_uploader.py 103-108: next_chunk raises.
NextChunkRaises(p) ==
    /\ pc[p] = "next_chunk"
    /\ chunkCalls' = [chunkCalls EXCEPT ![p] = Counted(@)]
    /\ \E e \in ChunkErrors :
          /\ error' = [error EXCEPT ![p] = e]
          /\ raised' = [raised EXCEPT ![p] = Append(@, e)]
          /\ retry' = [retry EXCEPT ![p] = @ + 1]
          /\ IF RetriesExhausted(retry'[p])
             THEN UploadRaises(p, Wrap("Upload failed after 3 retries: ",
                                       <<error'[p]>>))
             ELSE /\ pc' = [pc EXCEPT ![p] = "while"]
                  /\ UNCHANGED resp
    /\ UNCHANGED <<fs, calls, response, media, authCalls>>
    /\ UNCHANGED hvars

\* (mutant: the identifier is read without the test of line 111)
UploadResultUnchecked(p) ==
    /\ pc[p] = "result"
    /\ ~response[p].isNone
    /\ video_id' = [video_id EXCEPT ![p] = response[p].id]
    /\ pc' = [pc EXCEPT ![p] = "cleanup"]
    /\ UNCHANGED <<fs, calls, resp, req, video_path, audio_path>>
    /\ UNCHANGED uvars

\* youtube_uploader.py 110-116, app.py 141: the identifier is returned to the
\* handler, or its absence is raised.
UploadResult(p) ==
    /\ pc[p] = "result"
    /\ ~response[p].isNone
    /\ IF "id" \in response[p].keys
       THEN /\ video_id' = [video_id EXCEPT ![p] = response[p].id]
            /\ pc' = [pc EXCEPT ![p] = "cleanup"]
            /\ UNCHANGED resp
       ELSE /\ UploadRaises(p, <<"Upload completed but no video ID returned">>)
            /\ UNCHANGED video_id
    /\ UNCHANGED <<fs, calls, req, video_path, audio_path>>
    /\ UNCHANGED uvars

----------------------------------------------------------------------------
(* Specifications                                                          *)

Step(p) ==
    \/ StartJob(p)
    \/ SaveVideo(p) \/ SaveVideoDownloadFails(p) \/ SaveVideoMissing(p)
    \/ SaveAudio(p) \/ SaveAudioDownloadFails(p) \/ SaveAudioNone(p)
    \/ ApplyDucking(p) \/ ApplyDuckingFails(p) \/ SkipDucking(p)
    \/ AddWatermark(p) \/ AddWatermarkFails(p) \/ SkipWatermark(p)
    \/ AddSubtitle(p) \/ AddSubtitleFails(p) \/ SkipSubtitle(p)
    \/ Rename(p) \/ RenameFails(p)
    \/ UploadStart(p) \/ GetService(p) \/ GetServiceFails(p)
    \/ WhileResponseIsNone(p)
    \/ NextChunkProgress(p) \/ NextChunkTerminal(p) \/ NextChunkRaises(p)
    \/ UploadResult(p)
    \/ Cleanup(p)
    \/ Return(p)

\* The handler's own steps: everything but the arrival of a request.
Run(p) ==
    \/ SaveVideo(p) \/ SaveVideoDownloadFails(p) \/ SaveVideoMissing(p)
    \/ SaveAudio(p) \/ SaveAudioDownloadFails(p) \/ SaveAudioNone(p)
    \/ ApplyDucking(p) \/ ApplyDuckingFails(p) \/ SkipDucking(p)
    \/ AddWatermark(p) \/ AddWatermarkFails(p) \/ SkipWatermark(p)
    \/ AddSubtitle(p) \/ AddSubtitleFails(p) \/ SkipSubtitle(p)
    \/ Rename(p) \/ RenameFails(p)
    \/ UploadStart(p) \/ GetService(p) \/ GetServiceFails(p)
    \/ WhileResponseIsNone(p)
    \/ NextChunkProgress(p) \/ NextChunkTerminal(p) \/ NextChunkRaises(p)
    \/ UploadResult(p)
    \/ Cleanup(p)
    \/ Return(p)

\* One Job in flight at a time (spec section 5): a single worker.
Next == Step("w1")

Spec == Init /\ [][Next]_vars

\* Blocking, synchronous code (spec section 5): while a request is being
\* handled and every external call returns, the handler takes its next step.
LiveSpec == Init /\ [][Next]_vars /\ WF_vars(Run("w1"))

\* upload_video_to_youtube called on its own, on a path that holds a file or
\* does not.
UploadInit ==
    /\ fs \in { [x \in Paths |-> IF x = FINAL_OUTPUT THEN f ELSE NoFile] :
                   f \in {NoFile, Media("w1"), Stale} }
    /\ pc = [p \in Workers |-> IF p = "w1" THEN "upload" ELSE "idle"]
    /\ req = [p \in Workers |-> NoRequest]
    /\ video_path = [p \in Workers |-> None]
    /\ audio_path = [p \in Workers |-> None]
    /\ calls = [p \in Workers |-> <<>>]
    /\ resp = [p \in Workers |-> NoResp]
    /\ response = [p \in Workers |-> NoResponse]
    /\ retry = [p \in Workers |-> 0]
    /\ error = [p \in Workers |-> None]
    /\ raised = [p \in Workers |-> <<>>]
    /\ video_id = [p \in Workers |-> None]
    /\ media = [p \in Workers |-> NoFile]
    /\ authCalls = [p \in Workers |-> 0]
    /\ chunkCalls = [p \in Workers |-> 0]

UploadStep(p) ==
    \/ UploadStart(p) \/ GetService(p) \/ GetServiceFails(p)
    \/ WhileResponseIsNone(p)
    \/ NextChunkProgress(p) \/ NextChunkTerminal(p) \/ NextChunkRaises(p)
    \/ UploadResult(p)

UploadNext == UploadStep("w1")

UploadSpec == UploadInit /\ [][UploadNext]_vars

\* Two requests handled at the same time, one by each worker, over the same
\* fixed paths (spec section 5, app.py 23-32 and 113-161).  Each worker
\* handles one request; the steps of the two handlers interleave.
ConcMaxCalls == 1

\* One request with every optional input, one with a raw video body only,
\* one with no video.
ConcRequests ==
    { r \in Requests :
        \/ /\ r.content_type = "json" /\ r.video_url /\ r.audio_url
           /\ r.username = "alice" /\ r.subtitle_text = "Hello"
        \/ r.content_type = "video/"
        \/ /\ r.content_type = "json" /\ ~r.video_url /\ ~r.audio_url
           /\ r.username = "" /\ r.subtitle_text = "" }

StartJobConc(p) ==
    /\ pc[p] = "idle"
    /\ \E r \in ConcRequests : req' = [req EXCEPT ![p] = r]
    /\ pc' = [pc EXCEPT ![p] = "save_video"]
    /\ UNCHANGED <<fs, video_path, audio_path, video_id, calls, resp>>
    /\ UNCHANGED uvars

\* youtube_uploader.py 77-82: the file passed the check of line 56 and is
\* gone when MediaFileUpload opens it; the error is wrapped at 118-120.
MediaFileUploadFails(p) ==
    /\ pc[p] = "auth"
    /\ ~exists(FINAL_OUTPUT)
    /\ authCalls' = [authCalls EXCEPT ![p] = @ + 1]
    /\ UploadRaises(p, <<"FileNotFoundError">>)
    /\ UNCHANGED <<fs, calls, response, error, retry, raised, media, chunkCalls>>
    /\ UNCHANGED hvars

ConcStep(p) ==
    \/ StartJobConc(p)
    \/ SaveVideo(p) \/ SaveVideoDownloadFails(p) \/ SaveVideoMissing(p)
    \/ SaveAudio(p) \/ SaveAudioDownloadFails(p) \/ SaveAudioNone(p)
    \/ ApplyDucking(p) \/ ApplyDuckingFails(p) \/ SkipDucking(p)
    \/ AddWatermark(p) \/ AddWatermarkFails(p) \/ SkipWatermark(p)
    \/ AddSubtitle(p) \/ AddSubtitleFails(p) \/ SkipSubtitle(p)
    \/ Rename(p) \/ RenameFails(p)
    \/ UploadStart(p) \/ GetService(p) \/ GetServiceFails(p)
    \/ MediaFileUploadFails(p)
    \/ WhileResponseIsNone(p)
    \/ NextChunkTerminal(p)
    \/ (chunkCalls[p] < ConcMaxCalls /\ NextChunkProgress(p))
    \/ (chunkCalls[p] < ConcMaxCalls /\ NextChunkRaises(p))
    \/ UploadResult(p)
    \/ Cleanup(p)

ConcNext == \E p \in Workers : ConcStep(p)

ConcSpec == Init /\ [][ConcNext]_vars

----------------------------------------------------------------------------
(* Reading the history                                                     *)

Ran(p, op) == \E i \in 1..Len(calls[p]) : calls[p][i].op = op

Uploads(p) == Cardinality({i \in 1..Len(calls[p]) : calls[p][i].op = "upload"})

\* The UploadSession's state (spec 4.3), read off the position in
\* upload_video_to_youtube and what it handed back.
SessionState(p) ==
    IF Uploads(p) = 0 THEN "NONE"
    ELSE IF pc[p] = "auth" THEN "PREPARING"
    ELSE IF pc[p] \in {"while", "next_chunk", "result"} THEN "UPLOADING"
    ELSE IF video_id[p] # None THEN "COMPLETED"
    ELSE "FAILED"

UploadError(msg) == ServerError(Wrap("Failed to upload video to YouTube: ", msg))

----------------------------------------------------------------------------
(* C1: if next_chunk raises on attempts 1-3 and returns a terminal result  *)
(* with an id on attempt 4, the session ends COMPLETED and hands back that *)
(* id; if it raises on all of attempts 1-4 the session ends FAILED with    *)
(* the error that wraps the last exception's message, after exactly 4      *)
(* attempts: while fewer than 4 attempts have all raised the session is    *)
(* still uploading, and a 5th attempt is never made.                       *)
C1_RetryThenSuccessOrFail ==
    \A p \in Workers :
        /\ ( /\ Len(raised[p]) = 3 /\ chunkCalls[p] = 4
             /\ "id" \in response[p].keys )
           => /\ pc[p] \in {"while", "result", "cleanup", "done"}
              /\ pc[p] \in {"cleanup", "done"} =>
                    /\ video_id[p] = response[p].id
                    /\ SessionState(p) = "COMPLETED"
              /\ pc[p] = "done" => resp[p] = Success(response[p].id)
        /\ ( chunkCalls[p] > 0 /\ Len(raised[p]) = chunkCalls[p] )
           => /\ chunkCalls[p] <= 4
              /\ chunkCalls[p] < 4 => pc[p] \in {"while", "next_chunk"}
              /\ chunkCalls[p] = 4 =>
                    /\ pc[p] = "done"
                    /\ SessionState(p) = "FAILED"
                    /\ resp[p] = UploadError(
                           Wrap("Upload failed after 3 retries: ", <<raised[p][4]>>))

\* three exceptions, then the identifier on the 4th attempt, answered
C1_WitnessSuccess ==
    /\ Len(raised["w1"]) = 3 /\ chunkCalls["w1"] = 4
    /\ pc["w1"] = "done" /\ resp["w1"].status = 200

\* four exceptions, the last one different from the first
C1_Witness ==
    /\ Len(raised["w1"]) = 4 /\ chunkCalls["w1"] = 4
    /\ raised["w1"][4] # raised["w1"][1]
    /\ pc["w1"] = "done"

----------------------------------------------------------------------------
(* C2: once next_chunk has returned a terminal result without an 'id', no  *)
(* further chunk is sent, no identifier is handed back, and the session    *)
(* ends FAILED with the 'completed but no video ID' error, whatever the    *)
(* retry counter is.                                                       *)
C2_TerminalWithoutId ==
    \A p \in Workers :
        (~response[p].isNone /\ "id" \notin response[p].keys)
        => /\ pc[p] \in {"while", "result", "done"}
           /\ video_id[p] = None
           /\ pc[p] = "done" =>
                 /\ SessionState(p) = "FAILED"
                 /\ resp[p] = UploadError(<<"Upload completed but no video ID returned">>)

C2_Witness ==
    /\ ~response["w1"].isNone /\ "id" \notin response["w1"].keys
    /\ retry["w1"] = 2
    /\ pc["w1"] = "done"

----------------------------------------------------------------------------
(* C3: a request whose content type is not video/, that has no video_url   *)
(* and no video_file with an allowed extension is answered 400 with an     *)
(* error message, and the Job calls nothing: no audio acquisition, no      *)
(* stage, no rename, no upload.                                            *)
NoVideoSupplied(r) ==
    /\ r.content_type \in {"audio/", "json", "form"}
    /\ ~r.video_url
    /\ r.video_file \in {NoField, <<"clip", "txt">>}

----------------------------------------------------------------------------
(* C4: when a step before the upload raises (a download, ducking,          *)
(* watermark, subtitle or the rename), the Job ends there: the response is *)
(* the structured failure (success false, an error message, no video_id),  *)
(* the upload is never called, and nothing more is called for this Job.    *)
RaisesBeforeUpload(p) ==
    \/ SaveVideoDownloadFails(p) \/ SaveAudioDownloadFails(p)
    \/ ApplyDuckingFails(p) \/ AddWatermarkFails(p) \/ AddSubtitleFails(p)
    \/ RenameFails(p)

StructuredFailure(r) ==
    /\ r.status = 500
    /\ r.keys = {"success", "error"}
    /\ r.success = FALSE
    /\ r.error # <<>>

C4_StageErrorAborts ==
    [][\A p \in Workers :
        /\ RaisesBeforeUpload(p) =>
              /\ pc'[p] = "done"
              /\ StructuredFailure(resp'[p])
              /\ video_id'[p] = None
              /\ Uploads(p)' = 0 /\ authCalls'[p] = 0 /\ chunkCalls'[p] = 0
        /\ pc[p] = "done" =>
              \/ pc'[p] = "idle"
              \/ /\ pc'[p] = "done" /\ calls'[p] = calls[p]
                 /\ resp'[p] = resp[p] /\ fs' = fs]_vars

\* the watermark stage raised after ducking ran; subtitle text was supplied
C4_Witness ==
    /\ pc["w1"] = "done"
    /\ Len(calls["w1"]) > 0
    /\ calls["w1"][Len(calls["w1"])].op = "add_watermark"
    /\ Ran("w1", "apply_ducking")
    /\ req["w1"].subtitle_text # ""
    /\ resp["w1"].status = 500

----------------------------------------------------------------------------
(* C5: a stage runs if and only if its input is present (ducking: an audio *)
(* artifact was acquired; watermark: username non-empty; subtitle:         *)
(* subtitle text non-empty); a stage that did not run has not written its  *)
(* output path; with no username and no subtitle text the file handed to   *)
(* the upload is the ducking output, or the raw input when no audio.       *)
InUpload == {"upload", "auth", "while", "next_chunk", "result", "cleanup"}

Decided(p, later, laterOps) ==
    \/ pc[p] \in later \cup InUpload
    \/ \E op \in laterOps : Ran(p, op)

C5_StagesRunIffInput ==
    \A p \in Workers :
        /\ Ran(p, "apply_ducking") => audio_path[p] # None
        /\ Ran(p, "add_watermark") => req[p].username # ""
        /\ Ran(p, "add_subtitle") => req[p].subtitle_text # ""
        /\ ( Decided(p, {"watermark", "subtitle", "rename"},
                     {"add_watermark", "add_subtitle", "rename"})
             /\ audio_path[p] # None ) => Ran(p, "apply_ducking")
        /\ ( Decided(p, {"subtitle", "rename"}, {"add_subtitle", "rename"})
             /\ req[p].username # "" ) => Ran(p, "add_watermark")
        /\ ( Decided(p, {"rename"}, {"rename"})
             /\ req[p].subtitle_text # "" ) => Ran(p, "add_subtitle")
        /\ ~Ran(p, "apply_ducking") => fs[DUCKED_VIDEO].src # p
        /\ ~Ran(p, "add_watermark") => fs[WATERMARK_VIDEO].src # p
        /\ ~Ran(p, "add_subtitle") => fs[SUBTITLE_VIDEO].src # p
        /\ ( pc[p] \in InUpload
             /\ req[p].username = "" /\ req[p].subtitle_text = "" )
           => /\ fs[FINAL_OUTPUT].exists
              /\ fs[FINAL_OUTPUT].src = p
              /\ fs[FINAL_OUTPUT].stages =
                     (IF audio_path[p] # None THEN <<"ducking">> ELSE <<>>)
              /\ \E i \in 1..Len(calls[p]) :
                     /\ calls[p][i].op = "rename"
                     /\ calls[p][i].src =
                            (IF audio_path[p] # None THEN DUCKED_VIDEO
                                                     ELSE INPUT_VIDEO)

\* audio only, over files an earlier Job left at the stage paths
C5_Witness ==
    /\ pc["w1"] = "upload"
    /\ audio_path["w1"] # None
    /\ req["w1"].username = "" /\ req["w1"].subtitle_text = ""
    /\ fs[WATERMARK_VIDEO].exists /\ fs[SUBTITLE_VIDEO].exists

----------------------------------------------------------------------------
(* C6: the stages that run do so in the order ducking, watermark,          *)
(* subtitle; each reads what the previous call wrote (the first one the    *)
(* input video); the rename moves the last output to the final path; the   *)
(* upload comes after the rename and reads the final path, which holds     *)
(* exactly the stages that ran, in order.                                  *)
IsVideoCall(c) == c.op # "save_audio"

VideoCalls(p) == SelectSeq(calls[p], IsVideoCall)

OpRank(op) == CASE op = "save_video" -> 0
                [] op = "apply_ducking" -> 1
                [] op = "add_watermark" -> 2
                [] op = "add_subtitle" -> 3
                [] op = "rename" -> 4
                [] op = "upload" -> 5

StageName(op) == CASE op = "apply_ducking" -> "ducking"
                   [] op = "add_watermark" -> "watermark"
                   [] op = "add_subtitle" -> "subtitle"

IsStageCall(c) == c.op \in {"apply_ducking", "add_watermark", "add_subtitle"}

StagesRun(p) ==
    LET st == SelectSeq(calls[p], IsStageCall)
    IN  [i \in 1..Len(st) |-> StageName(st[i].op)]

C6_StageOrderAndChaining ==
    \A p \in Workers :
        LET vc == VideoCalls(p) IN
        /\ Len(vc) > 0 => vc[1].op = "save_video" /\ vc[1].dst = INPUT_VIDEO
        /\ \A i \in 2..Len(vc) :
              /\ OpRank(vc[i].op) > OpRank(vc[i-1].op)
              /\ vc[i].src = vc[i-1].dst
        /\ \A i \in 1..Len(vc) :
              /\ vc[i].op = "rename" => vc[i].dst = FINAL_OUTPUT
              /\ vc[i].op = "upload" =>
                    i > 1 /\ vc[i-1].op = "rename" /\ vc[i].src = FINAL_OUTPUT
        /\ pc[p] \in InUpload =>
              /\ Ran(p, "rename")
              /\ fs[FINAL_OUTPUT].exists
              /\ fs[FINAL_OUTPUT].src = p
              /\ fs[FINAL_OUTPUT].ok
              /\ fs[FINAL_OUTPUT].stages = StagesRun(p)
              /\ fs[FINAL_OUTPUT].aud = (IF Ran(p, "apply_ducking") THEN p ELSE NoAudio)

\* ducking and subtitle ran, watermark did not, and the upload has started
C6_Witness ==
    /\ pc["w1"] = "auth"
    /\ StagesRun("w1") = <<"ducking", "subtitle">>

----------------------------------------------------------------------------
(* C7: when a Job has answered success, none of the six fixed paths        *)
(* exists, whichever stages ran and whatever earlier Jobs left behind, and *)
(* the response is the success response with the uploaded identifier.      *)
C7_CleanupAfterSuccess ==
    \A p \in Workers :
        (pc[p] = "done" /\ resp[p].status = 200)
        => /\ \A x \in {INPUT_VIDEO, INPUT_AUDIO, DUCKED_VIDEO, WATERMARK_VIDEO,
                        SUBTITLE_VIDEO, FINAL_OUTPUT} : ~fs[x].exists
           /\ resp[p] = Success(video_id[p])
           /\ video_id[p] \in VideoIds

\* success of a Job that ran ducking only: two stage paths were never created
C7_Witness ==
    /\ pc["w1"] = "done" /\ resp["w1"].status = 200
    /\ StagesRun("w1") = <<"ducking">>

----------------------------------------------------------------------------
(* C8: a Job calls the upload at most once; the session's state only moves *)
(* NONE -> PREPARING -> UPLOADING -> COMPLETED or FAILED (FAILED also from *)
(* NONE or PREPARING, when the file check or the authentication raises); a *)
(* FAILED session is answered as a failed Job, and nothing follows either  *)
(* terminal state but the return of the response.                          *)
SessionMoves ==
    {<<"NONE", "PREPARING">>, <<"NONE", "FAILED">>,
     <<"PREPARING", "UPLOADING">>, <<"PREPARING", "FAILED">>,
     <<"UPLOADING", "COMPLETED">>, <<"UPLOADING", "FAILED">>}

C8_OneSessionForward ==
    [][\A p \in Workers :
        /\ Uploads(p) <= 1 /\ Uploads(p)' <= 1
        /\ \/ SessionState(p)' = SessionState(p)
           \/ <<SessionState(p), SessionState(p)'>> \in SessionMoves
           \/ pc[p] = "done" /\ pc'[p] = "idle"
        /\ SessionState(p) \in {"COMPLETED", "FAILED"} =>
              /\ Uploads(p)' <= Uploads(p)
              /\ authCalls'[p] <= authCalls[p]
              /\ chunkCalls'[p] <= chunkCalls[p]
        /\ SessionState(p)' = "FAILED" =>
              /\ pc'[p] = "done"
              /\ resp'[p].status = 500 /\ resp'[p].success = FALSE
              /\ video_id'[p] = None]_vars

\* a session that failed on the retry ceiling, answered
C8_Witness ==
    /\ SessionState("w1") = "FAILED"
    /\ retry["w1"] = 4
    /\ pc["w1"] = "done"

----------------------------------------------------------------------------
(* C9: a failure before UPLOADING is fatal without a retry.  When the file *)
(* is not at the path the session fails before get_youtube_service is      *)
(* called and without a next_chunk call; when get_youtube_service raises   *)
(* the session fails without a next_chunk call, and in no session is       *)
(* get_youtube_service called more than once.                              *)
AuthenticationError ==
    UploadError(Wrap("Failed to authenticate with YouTube API: ", <<"RefreshError">>))

C9_FatalBeforeUploading ==
    \A p \in Workers :
        /\ (Uploads(p) >= 1 /\ ~fs[FINAL_OUTPUT].exists)
           => /\ pc[p] = "done"
              /\ SessionState(p) = "FAILED"
              /\ authCalls[p] = 0 /\ chunkCalls[p] = 0
              /\ resp[p] = UploadError(<<"Video file not found: ", FINAL_OUTPUT>>)
        /\ authCalls[p] <= 1
        /\ pc[p] = "auth" => authCalls[p] = 0
        /\ resp[p] = AuthenticationError
           => /\ pc[p] = "done"
              /\ SessionState(p) = "FAILED"
              /\ authCalls[p] = 1 /\ chunkCalls[p] = 0 /\ retry[p] = 0

\* the upload was called on a path that holds no file
C9_Witness ==
    /\ Uploads("w1") = 1
    /\ ~fs[FINAL_OUTPUT].exists
    /\ pc["w1"] = "done"

\* get_youtube_service raised
C9_WitnessAuth ==
    /\ resp["w1"] = AuthenticationError
    /\ fs[FINAL_OUTPUT].exists

----------------------------------------------------------------------------
(* C10 as claimed: every Job that started reaches its response, for every  *)
(* sequence of next_chunk outcomes.                                        *)
C10_EveryJobEnds == (pc["w1"] = "save_video") ~> (pc["w1"] = "done")

(* C10, amended: every Job that started reaches its response unless        *)
(* next_chunk returns progress without a terminal result infinitely often: *)
(* the loop bounds the exceptions (4) but not the progress results.        *)
C10_EveryJobEndsUnlessProgressForever ==
    \/ []<><<NextChunkProgress("w1")>>_vars
    \/ (pc["w1"] = "save_video") ~> (pc["w1"] = "done")

\* a Job that answered after progress results and exceptions
C10_Witness ==
    /\ pc["w1"] = "done"
    /\ retry["w1"] = 3
    /\ chunkCalls["w1"] = MaxCalls
    /\ resp["w1"].status = 200

----------------------------------------------------------------------------
(* C12: within a session retry starts at 0 and is the number of exceptions *)
(* next_chunk has raised so far in the whole session: it changes only by   *)
(* +1, on an exception; a progress result and a terminal result leave it   *)
(* unchanged; it is never reset or decreased before the handler returns.   *)
(* It stays in 0..4, the loop goes on only while it is at most 3, and the  *)
(* exception that takes it to 4 ends the session FAILED, however many      *)
(* progress results came in between.                                       *)
InSession(p) == pc[p] \in {"while", "next_chunk", "result"}

C12_RetryCounter ==
    [][\A p \in Workers :
        /\ retry[p] \in 0..4 /\ retry'[p] \in 0..4
        /\ retry[p] = Len(raised[p])
        /\ InSession(p) => retry[p] <= 3
        /\ (pc[p] = "auth" /\ InSession(p)') => retry'[p] = 0
        /\ NextChunkProgress(p) => retry'[p] = retry[p]
        /\ NextChunkTerminal(p) => retry'[p] = retry[p]
        /\ NextChunkRaises(p) => retry'[p] = retry[p] + 1
        /\ retry'[p] # retry[p] =>
              \/ NextChunkRaises(p) /\ retry'[p] = retry[p] + 1
              \/ pc[p] = "done" /\ pc'[p] = "idle"
        /\ (retry[p] = 3 /\ retry'[p] = 4) =>
              /\ pc'[p] = "done"
              /\ SessionState(p)' = "FAILED"
              /\ resp'[p].status = 500]_vars

\* the 4th exception of a session that also saw two progress results
C12_Witness ==
    /\ retry["w1"] = 4
    /\ chunkCalls["w1"] = 6
    /\ pc["w1"] = "done"

----------------------------------------------------------------------------
(* C13: with Jobs run one after another, what a Job uploads derives from   *)
(* its own video and its own audio only, whatever earlier Jobs left: a Job *)
(* that fails removes nothing, and its files stay when it returns; every   *)
(* stage, the rename and the upload read a file this Job wrote; a skipped  *)
(* stage touches no file.                                                  *)
OwnMedia(p, f) ==
    /\ f.exists /\ f.ok
    /\ f.src = p
    /\ f.aud = (IF audio_path[p] # None THEN p ELSE NoAudio)

FileNotOpened == UploadError(<<"FileNotFoundError">>)

\* MediaFileUpload has opened the Job's final file (youtube_uploader.py 77)
Opened(p) ==
    \/ InSession(p)
    \/ pc[p] = "cleanup"
    \/ /\ pc[p] = "done" /\ authCalls[p] = 1
       /\ resp[p] \notin {AuthenticationError, FileNotOpened}

C13_Uploaded ==
    \A p \in Workers :
        Opened(p) => /\ OwnMedia(p, media[p])
                     /\ media[p].stages = StagesRun(p)

C13_Reads ==
    \A p \in Workers :
        /\ ApplyDucking(p) => /\ fs[video_path[p]] = Media(p)
                              /\ fs[audio_path[p]] = Media(p)
        /\ AddWatermark(p) => fs[video_path[p]].src = p /\ fs[video_path[p]].ok
        /\ AddSubtitle(p) => fs[video_path[p]].src = p /\ fs[video_path[p]].ok
        /\ Rename(p) => OwnMedia(p, fs[video_path[p]])
        /\ GetService(p) => OwnMedia(p, fs[FINAL_OUTPUT])
        /\ (SkipDucking(p) \/ SkipWatermark(p) \/ SkipSubtitle(p)) => fs' = fs
        /\ (pc[p] # "done" /\ pc'[p] = "done" /\ resp'[p].status # 200) =>
              \A x \in Paths : fs[x].exists => fs'[x].exists
        /\ (pc[p] = "done" /\ pc'[p] = "idle") =>
              \A x \in Paths : fs'[x].exists = fs[x].exists

C13_SequentialJobsIsolated == []C13_Uploaded /\ [][C13_Reads]_vars

\* a Job without audio and without subtitle text is uploading its own
\* watermarked video while the audio, the ducked, the subtitled video of
\* earlier failed Jobs still lie at their paths
C13_Witness ==
    /\ pc["w1"] = "next_chunk"
    /\ media["w1"].src = "w1"
    /\ StagesRun("w1") = <<"watermark">>
    /\ fs[INPUT_AUDIO] = Stale
    /\ fs[DUCKED_VIDEO] = Stale
    /\ fs[SUBTITLE_VIDEO] = Stale

----------------------------------------------------------------------------
(* C11: two Jobs handled at the same time share the fixed paths, and there *)
(* is an interleaving in which a Job uploads the other Job's media, or     *)
(* fails because the other Job renamed or deleted its current artifact.    *)
(* What the Jobs do to each other comes from the other Job's steps on the  *)
(* shared paths and from nothing else: media that is not the Job's own was *)
(* written by the other Job's acquisition, a current artifact that is gone *)
(* before the rename was renamed or cleaned up by the other Job, and a     *)
(* final file that is gone at the upload was cleaned up by the other Job   *)
(* after its own successful upload.                                        *)
VideoFileNotFound == UploadError(<<"Video file not found: ", FINAL_OUTPUT>>)

\* the media the Job opened for upload holds video or audio of Job q
UploadsMediaOf(p, q) ==
    /\ Opened(p)
    /\ media[p].src = q \/ media[p].aud = q

\* the Job's current artifact is gone while the Job still has to read it
ArtifactGone(p) ==
    /\ pc[p] \in {"save_audio", "ducking", "watermark", "subtitle", "rename"}
    /\ video_path[p] # None
    /\ ~exists(video_path[p])

\* the Job failed at the upload on the final file it had itself put there
FinalGone(p) ==
    /\ Ran(p, "rename")
    /\ \/ pc[p] \in {"upload", "auth"} /\ ~exists(FINAL_OUTPUT)
       \/ resp[p] = VideoFileNotFound
       \/ resp[p] = FileNotOpened

C11_InterferenceIsTheOtherJobs ==
    \A p \in Workers :
        /\ Opened(p) => media[p].exists
        /\ \A q \in Workers \ {p} :
              UploadsMediaOf(p, q) =>
                 \/ Ran(q, "save_video") /\ media[p].src = q
                 \/ Ran(q, "save_audio") /\ media[p].aud = q
        /\ ArtifactGone(p) =>
              \E q \in Workers \ {p} : Ran(q, "rename") \/ resp[q].status = 200
        /\ FinalGone(p) =>
              \E q \in Workers \ {p} : resp[q] = Success(video_id[q])

\* one Job uploaded, with success, a video made from the other Job's video;
\* its cleanup removed the other Job's final file, and that Job failed
C11_Witness ==
    /\ resp["w1"].status = 200
    /\ media["w1"].src = "w2"
    /\ Ran("w2", "rename")
    /\ resp["w2"] = VideoFileNotFound

====
